---------------------------- MODULE Spec2Model ----------------------------
(***************************************************************************)
(* A model of the GitHub-Agent repository.                                 *)
(*                                                                         *)
(*   SpecGraph    the compiled stage graph of src/agent.py, run as the     *)
(*                graph engine runs it (supersteps), with the stage        *)
(*                functions threshold_filtering, dependency_analysis and   *)
(*                code_quality_analysis acting on the candidate lists.     *)
(*   SpecFetch    _gh_raw of src/tools/dependency_analysis.py behind its   *)
(*                alru_cache, called by concurrent tasks.                  *)
(*   SpecBackoff  one task calling _gh_raw, the waits of its retry loop    *)
(*                recorded.                                                *)
(*   SpecStage    a filter stage called on any state.                      *)
(*   SpecDeps     the concurrent tasks of dependency_analysis_async, its   *)
(*                semaphore and its rate limiter.                          *)
(*   SpecQuality  the concurrent call_mcp_tool tasks of                     *)
(*                code_quality_analysis_async, each with its worker.       *)
(*   SpecSandbox  analyze_repo_quality of src/server.py and the            *)
(*                call_mcp_tool that awaits it; SpecSandboxLive adds       *)
(*                fairness.                                                *)
(*                                                                         *)
(* Every specification constrains all the variables; the variables of the  *)
(* other parts keep their initial values.                                  *)
(***************************************************************************)
EXTENDS Integers, Sequences, FiniteSets, TLC

VARIABLES
    \* ---- the stage graph (src/agent.py) ----
    run_state,            \* "running" | "finished" | "failed": graph.invoke in progress,
                          \* returned, or left by an exception of a node; "direct" when
                          \* a stage function is called on a state outside a run
    step_tasks,           \* the nodes the current superstep executes
    node_status,          \* per node, within the superstep: "idle" | "running" | "done"
    exec_count,           \* per node: how many times it was started in this run
    done_count,           \* per node: how many times it completed in this run
    pending_writes,       \* the state updates returned by the nodes of this superstep
    early_start,          \* nodes that were started while a graph predecessor had not completed
    hardware_spec,        \* AgentState.hardware_spec
    reranked_candidates,  \* AgentState.reranked_candidates (a list of references to repo dicts)
    filtered_candidates,  \* AgentState.filtered_candidates
    hardware_filtered,    \* AgentState.hardware_filtered
    activity_candidates,  \* AgentState.activity_candidates
    quality_candidates,   \* AgentState.quality_candidates
    repo,                 \* the repo dicts themselves, by reference
    modified,             \* the repo dicts changed since threshold_filtering returned
    call_log,             \* the latest call of a filter stage: its input and output lists
    tool_outcome,         \* per repo dict: whether a step of its latest tool invocation
                          \* failed: "-" (no invocation) | "ok" | "failed"
    \* ---- _gh_raw behind alru_cache (src/tools/dependency_analysis.py) ----
    fcallers,             \* the tasks that call _gh_raw
    ftrace,               \* whether the waits of a call are recorded in fwaits
    cache,                \* the cache's entries, least recently used first
    fpc,                  \* per caller: "idle" | "request" | "sleep" | "wait" | "done"
    fkey,                 \* per caller: the key of its current call (0: none)
    attempt,              \* per caller: the loop variable of _gh_raw
    nreq,                 \* per caller: the network requests its current call has issued
    fwaits,               \* per caller: the waits its current call has slept, in order
    fresult,              \* per caller: what its call returned: "content" | "none" | "raise"
    fhow,                 \* per caller: how its call ended
    awaiting,             \* per caller in "wait": the caller whose request sequence it awaits
    ncalls,               \* per caller: the calls it has made
    settled,              \* per key: a fetch of it has returned content or a 404 absence
    absent404,            \* per key: a fetch of it has returned absent because of a 404
    last_gaveup,          \* per key: its latest finished request sequence gave up
    pre_settled,          \* per caller: settled[key] when its current call started
    pre_absent,           \* per caller: absent404[key] when its current call started
    pre_gaveup,           \* per caller: last_gaveup[key] when its current call started
    \* ---- the tasks of dependency_analysis_async (src/tools/dependency_analysis.py) ----
    dstage,               \* "idle" | "running" | "done" | "failed"
    dhw,                  \* state.hardware_spec
    dfull,                \* the full_name of each candidate of state.filtered_candidates
    dpc,                  \* per candidate's task: "new" | "waiting" (for the semaphore) |
                          \* "collecting" (inside _collect_deps) | "throttled" (waiting
                          \* for the rate limiter) | "kept" | "dropped" | "cancelled"
    sem_value,            \* the permits the semaphore has left
    sem_waiters,          \* the tasks waiting for a permit, first come first
    permit,               \* per candidate: whether its task holds a permit
    inflight,             \* per candidate: its manifest requests in flight
    has_deps,             \* per candidate: whether a manifest yielded dependencies
    nfetch,               \* per candidate: the manifest fetches started for it
    njudge,               \* per candidate: the judgment calls made for it
    verdict,              \* per candidate: what get_llm_compatibility returned ("-": no call)
    lim_level,            \* the rate limiter's level, in seconds left to drain
    since_call,           \* the time since the latest judgment call started (capped)
    call_gaps,            \* the time between each judgment call and the one before it
    dkept,                \* the list returned as hardware_filtered
    \* ---- analyze_repo_quality (src/server.py) ----
    spc,                  \* "idle" | "clone" | "flake8" | "cleanup" | "returned"
    hung,                 \* whether the child process the call waits for never exits
    cpc,                  \* call_mcp_tool, the caller: "idle" | "awaiting" | "returned"
    tmp_exists,           \* whether the directory made by tempfile.mkdtemp() exists
    ws_entries,           \* what lies in the directory: per entry, how deleting it goes
    total_files,          \* len(py_files)
    error_count,          \* the number of lines flake8 printed
    analyzed,             \* whether the score was computed from flake8's output
    result_data,          \* the dict whose str() is returned
    \* ---- the tasks of code_quality_analysis_async (src/tools/code_quality.py) ----
    qstage,               \* "idle" | "running" | "done"
    qrepo,                \* the dict of each candidate of filtered_candidates
    qpc,                  \* per candidate's call_mcp_tool: "new" | "handshake" (the
                          \* worker runs, client.init() is awaited) | "calling" (the
                          \* tool call is awaited) | "closing" (the finally block is
                          \* reached) | "returned" | "raised"
    worker,               \* per candidate: the worker process of its client:
                          \* "none" | "alive" | "gone"
    closes,               \* per candidate: how many times client.close() has run
    close_failed,         \* per candidate: whether the teardown inside close() raised
    primary,              \* per candidate: the fields as the try block left them
    qresult,              \* per candidate: what its task handed to gather
    qlist                 \* the list returned as quality_candidates

graphVars == <<run_state, step_tasks, node_status, exec_count, done_count,
               pending_writes, early_start, hardware_spec, reranked_candidates,
               filtered_candidates, hardware_filtered, activity_candidates,
               quality_candidates, repo, modified, call_log, tool_outcome>>

fetchVars == <<fcallers, ftrace, cache, fpc, fkey, attempt, nreq, fwaits, fresult,
               fhow, awaiting, ncalls, settled, absent404, last_gaveup, pre_settled,
               pre_absent, pre_gaveup>>

depsVars == <<dstage, dhw, dfull, dpc, sem_value, sem_waiters, permit, inflight, has_deps,
              nfetch, njudge, verdict, lim_level, since_call, call_gaps, dkept>>

sandVars == <<spc, hung, cpc, tmp_exists, ws_entries, total_files, error_count, analyzed,
              result_data>>

qualVars == <<qstage, qrepo, qpc, worker, closes, close_failed, primary, qresult, qlist>>

vars == <<graphVars, fetchVars, depsVars, sandVars, qualVars>>

\* what the steps of one part leave alone
notGraphVars == <<fetchVars, depsVars, sandVars, qualVars>>
notFetchVars == <<graphVars, depsVars, sandVars, qualVars>>
notDepsVars == <<graphVars, fetchVars, sandVars, qualVars>>
notSandVars == <<graphVars, fetchVars, depsVars, qualVars>>
notQualVars == <<graphVars, fetchVars, depsVars, sandVars>>

(***************************************************************************)
(* Bounds of the model.                                                    *)
(***************************************************************************)
\* the number of repo dicts the reranking stage can hand over
MaxRepos == 2
\* the capacity of the fetch cache: alru_cache(maxsize=1024) in the source, scaled
\* down so that more distinct keys than the capacity can be fetched
maxsize == 2
\* the tasks that call _gh_raw concurrently
MaxCallers == 2
\* the calls of _gh_raw one task makes
MaxCalls == 2
\* the Python files a cloned repository holds
MaxFiles == 4
\* the diagnostic lines flake8 prints
MaxErrors == 50
\* the entries rmtree finds in the temporary directory
MaxEntries == 2
\* the candidates dependency_analysis is given: more than the semaphore admits
MaxCands == 6
\* how many of them have a full_name without "/"
MaxNoSlash == 1
\* how many of them have a manifest that yields dependencies
MaxWithDeps == 2

(***************************************************************************)
(* Helpers on sequences.                                                   *)
(***************************************************************************)
Range(s) == {s[i] : i \in DOMAIN s}

\* [x for x in s if Keep(x)], as a Python list comprehension builds it
RECURSIVE FilterSeq(_, _)
FilterSeq(s, keep) ==
    IF s = <<>> THEN <<>>
    ELSE IF Head(s) \in keep THEN <<Head(s)>> \o FilterSeq(Tail(s), keep)
         ELSE FilterSeq(Tail(s), keep)

Max(a, b) == IF a >= b THEN a ELSE b

(***************************************************************************)
(* src/agent.py: the graph.                                                *)
(***************************************************************************)
START == "__start__"
END == "__end__"

\* builder.add_node(...), lines 98-110
Nodes == {"convert_searchable_query", "parse_hardware", "ingest_github_repos",
          "neural_dense_retrieval", "cross_encoder_reranking", "threshold_filtering",
          "dependency_analysis", "repository_activity_analysis", "decision_maker",
          "code_quality_analysis", "merge_analysis", "multi_factor_ranking",
          "output_presentation"}

\* builder.add_edge(src, dst), lines 113-133: every edge is added on its own,
\* with one source node.
Edges == {<<START, "convert_searchable_query">>,
          <<"convert_searchable_query", "parse_hardware">>,
          <<"parse_hardware", "ingest_github_repos">>,
          <<"ingest_github_repos", "neural_dense_retrieval">>,
          <<"neural_dense_retrieval", "cross_encoder_reranking">>,
          <<"cross_encoder_reranking", "threshold_filtering">>,
          <<"threshold_filtering", "dependency_analysis">>,
          <<"threshold_filtering", "repository_activity_analysis">>,
          <<"threshold_filtering", "decision_maker">>,
          <<"dependency_analysis", "code_quality_analysis">>,
          <<"decision_maker", "code_quality_analysis">>,
          <<"repository_activity_analysis", "merge_analysis">>,
          <<"code_quality_analysis", "merge_analysis">>,
          <<"merge_analysis", "multi_factor_ranking">>,
          <<"multi_factor_ranking", "output_presentation">>,
          <<"output_presentation", END>>}

\* the declared predecessors of a node
Preds(n) == {e[1] : e \in {x \in Edges : x[2] = n}} \ {START}

\* the nodes with several declared predecessors
JoinNodes == {n \in Nodes : Cardinality(Preds(n)) > 1}

\* An edge added with a single source makes its target run in the superstep
\* after every superstep in which the source ran: the target is triggered by
\* any one of its sources, it does not wait for the others.
TriggeredBy(ran) == {e[2] : e \in {x \in Edges : x[1] \in ran}} \ {END}


(***************************************************************************)
(* The repo dicts.  A candidate list holds references (ids) to dicts, so a *)
(* stage that changes a dict in place changes it for every list that holds *)
(* it.                                                                     *)
(***************************************************************************)
RepoIds == 1..MaxRepos

\* AgentConfiguration.min_stars
min_stars == 50
\* AgentConfiguration.cross_encoder_threshold (5.5), in tenths
cross_encoder_threshold == 55

FullNames == {"octo/alpha", "octo/beta", "noslash"}
\* a test that finds a "/" in every name
HasSlash_always(full) == TRUE

\* "/" in full
HasSlash(full) == full \in {"octo/alpha", "octo/beta"}

\* a field the dict does not have yet
UNSET == 0 - 1

\* what the upstream stages supply for a candidate
RepoInputs == [full_name : FullNames,
               stars : {min_stars - 1, min_stars},
               cross_encoder_score : {cross_encoder_threshold - 1, cross_encoder_threshold},
               clone_url : BOOLEAN,
               code_quality_score : {UNSET},
               details : {""},
               activity_score : {UNSET}]

NoRepo == [full_name |-> "noslash", stars |-> 0, cross_encoder_score |-> 0,
           clone_url |-> FALSE, code_quality_score |-> UNSET, details |-> "",
           activity_score |-> UNSET]

(***************************************************************************)
(* src/tools/filtering.py                                                  *)
(***************************************************************************)
\* a cutoff that drops a repo that is below either of the two thresholds
threshold_pass_either(rr, heap) ==
    FilterSeq(rr, {i \in Range(rr) :
                     ~(heap[i].stars < min_stars
                       \/ heap[i].cross_encoder_score < cross_encoder_threshold)})

\* lines 17-25: the repos that are not below both cutoffs, in input order
threshold_pass(rr, heap) ==
    FilterSeq(rr, {i \in Range(rr) :
                     ~(heap[i].stars < min_stars
                       /\ heap[i].cross_encoder_score < cross_encoder_threshold)})

\* a stage that appends the reranked candidates to those that passed, instead
\* of falling back to them only when nothing passed
threshold_filtering_appending(rr, hw, hwf, heap) ==
    LET kept == threshold_pass(rr, heap) \o rr
    IN  IF hw # "" /\ hwf # <<>> THEN hwf ELSE kept

\* lines 16-42: the list the stage returns as filtered_candidates
threshold_filtering(rr, hw, hwf, heap) ==
    LET filtered == threshold_pass(rr, heap)
        kept == IF filtered = <<>> THEN rr ELSE filtered
    IN  IF hw # "" /\ hwf # <<>> THEN hwf ELSE kept

(***************************************************************************)
(* asyncio.gather, as the two concurrent stages use it.                    *)
(***************************************************************************)
\* the orders in which the tasks of a list can complete
Orders(S) == {o \in [1..Cardinality(S) -> S] : \A i, j \in DOMAIN o : i # j => o[i] # o[j]}

\* a result list in the order in which the tasks completed
gather_as_completed(tasks, done_order, res) ==
    [k \in DOMAIN done_order |-> res[done_order[k]]]

\* await asyncio.gather(*tasks): the result list has the results in the order
\* of the awaitables passed in, whatever the order done_order in which they
\* completed
gather(tasks, done_order, res) ==
    [k \in DOMAIN tasks |-> res[tasks[k]]]

\* Python's None in a result list of repo references
None == 0

(***************************************************************************)
(* src/tools/dependency_analysis.py: the stage                             *)
(***************************************************************************)
\* What the remote side answers for one candidate: the dependency list the
\* two manifests yield, the first word of the judgment's answer, and whether
\* a manifest fetch ends with an error _gh_raw does not catch (a body that is
\* no JSON, an X-Ratelimit-Reset that is no integer, an httpx error other than
\* the three of line 73).
DepAnswers == {[deps |-> <<>>, ans |-> "NO", raises |-> FALSE],
               [deps |-> <<"torch">>, ans |-> "YES", raises |-> FALSE],
               [deps |-> <<"torch">>, ans |-> "NO", raises |-> FALSE],
               [deps |-> <<>>, ans |-> "NO", raises |-> TRUE]}

\* process_repo, lines 176-200: TRUE when the repo is returned, FALSE for None
process_repo(full, deps, ans) ==
    IF ~HasSlash(full) THEN TRUE
    ELSE IF deps = <<>> THEN TRUE
    ELSE ans = "YES"

\* lines 178-183: whether process_repo leaves with the exception of a fetch.
\* A full_name without "/" returns before any fetch.
process_repo_raises(full, answer) == HasSlash(full) /\ answer.raises

\* lines 166-203: whether the stage leaves with an exception.  gather is
\* called without return_exceptions, so the first exception of a task is
\* raised by the await of line 203 and leaves dependency_analysis_async,
\* asyncio.run and the node.
dependency_analysis_raises(hw, cand, heap, env) ==
    /\ hw # ""
    /\ \E i \in Range(cand) : process_repo_raises(heap[i].full_name, env[i])

\* dependency_analysis_async, lines 163-207: the list returned as hardware_filtered
dependency_analysis_async(hw, cand, heap, env, done_order) ==
    IF hw = "" THEN cand
    ELSE LET res == [i \in Range(cand) |->
                        IF process_repo(heap[i].full_name, env[i].deps, env[i].ans)
                        THEN i ELSE None]
             results == gather(cand, done_order, res)
         IN  FilterSeq(results, RepoIds)

(***************************************************************************)
(* src/tools/code_quality.py: the stage                                    *)
(***************************************************************************)
\* How one tool invocation ends:
\*   "dict"         the server analysed the repository and its dict came back
\*   "degraded"     the server's clone or flake8 run failed: its dict has score 0
\*                  and str(e) in details (src/server.py lines 88-90)
\*   "nondict"      the text is a Python literal that is no dict (line 136)
\*   "unparseable"  ast.literal_eval raises (lines 137-139)
\*   "empty"        no content came back (lines 140-142)
\*   "fail"         starting the worker, the handshake or the tool call raises
\*                  (lines 144-146)
ToolOutcomes == {"dict", "degraded", "nondict", "unparseable", "empty", "fail"}

\* the outcomes in which a step of the invocation failed
ToolFailures == ToolOutcomes \ {"dict"}

\* call_mcp_tool, lines 98-152: the repo dict after the call
call_mcp_tool(r, outcome) ==
    CASE outcome = "dict" -> [r EXCEPT !.code_quality_score = 95, !.details = ""]
      [] outcome = "degraded" -> [r EXCEPT !.code_quality_score = 0, !.details = "error"]
      [] outcome = "nondict" -> r
      [] OTHER -> [r EXCEPT !.code_quality_score = 0]

\* code_quality_analysis_async, lines 165-174: the dicts after the loop that adds
\* clone_url and after every call_mcp_tool has returned
quality_heap(cand, heap, outcome) ==
    [i \in DOMAIN heap |->
        IF i \in Range(cand)
        THEN call_mcp_tool([heap[i] EXCEPT !.clone_url = TRUE], outcome[i])
        ELSE heap[i]]

\* code_quality_analysis_async, lines 166-182: the list returned as
\* quality_candidates.  The candidates are read from filtered_candidates;
\* call_mcp_tool returns its repo on every path, so no entry of the gathered
\* list is an exception.
code_quality_analysis_async(cand, done_order) ==
    LET quality_list == gather(cand, done_order, [i \in Range(cand) |-> i])
    IN  FilterSeq(quality_list, RepoIds)

(***************************************************************************)
(* src/tools/activity_analysis.py: the stage                               *)
(***************************************************************************)
\* repository_activity_analysis, lines 63-76: every dict of
\* filtered_candidates gets its activity fields, in place
activity_heap(cand, heap) ==
    [i \in DOMAIN heap |->
        IF i \in Range(cand) THEN [heap[i] EXCEPT !.activity_score = 1] ELSE heap[i]]

\* lines 71-76: the list returned as activity_candidates
repository_activity_analysis(cand) == cand

\* How the remote requests of one candidate go:
\*   "ok"          every request is answered 200 with the expected payload
\*   "freq_error"  the request of get_commit_frequency fails: caught at lines
\*                 21-22, the frequency is 0
\*   "neterror"    requests.get of line 35 or 41 raises (no connection, a timeout)
\*   "badpayload"  a 200 response whose body response.json() rejects, or whose
\*                 first commit lacks ["commit"]["committer"]["date"]
\*                 (lines 36, 43-46)
ActivityOutcomes == {"ok", "freq_error", "neterror", "badpayload"}

\* analyze_repository_activity, lines 30-69: whether it leaves with an
\* exception.  Lines 35-51 are in no try block.
analyze_repository_activity_raises(outcome) == outcome \in {"neterror", "badpayload"}

\* lines 73-75: the loop analyses the candidates one after the other; the
\* first exception leaves the loop and the stage
repository_activity_raises(cand, outcome) ==
    \E k \in DOMAIN cand : analyze_repository_activity_raises(outcome[cand[k]])

\* the candidates the loop has analysed when it ends or is left
activity_prefix(cand, outcome) ==
    IF repository_activity_raises(cand, outcome)
    THEN LET k == CHOOSE j \in DOMAIN cand :
                     /\ analyze_repository_activity_raises(outcome[cand[j]])
                     /\ \A h \in 1..(j - 1) :
                           ~analyze_repository_activity_raises(outcome[cand[h]])
         IN  SubSeq(cand, 1, k - 1)
    ELSE cand

(***************************************************************************)
(* The run of the compiled graph (graph.invoke, src/agent.py line 146).    *)
(* The run proceeds in supersteps: the nodes triggered by the previous     *)
(* superstep run concurrently on the state as it was when the superstep    *)
(* began; the updates they return are applied when all of them are done.   *)
(***************************************************************************)
\* the repo dicts that differ between two heaps
Changed(old, new) == {i \in DOMAIN old : new[i] # old[i]}

\* no filter stage has been called
NoCall == [stage |-> "none", input |-> <<>>, output |-> <<>>]

\* the candidate lists and dicts before anything has run
StateDefaults ==
    /\ hardware_spec = ""
    /\ reranked_candidates = <<>>
    /\ filtered_candidates = <<>>
    /\ hardware_filtered = <<>>
    /\ activity_candidates = <<>>
    /\ quality_candidates = <<>>
    /\ repo = [i \in RepoIds |-> NoRepo]
    /\ modified = {}
    /\ call_log = NoCall
    /\ tool_outcome = [i \in RepoIds |-> "-"]

GraphStart ==
    /\ run_state = "running"
    /\ step_tasks = TriggeredBy({START})
    /\ node_status = [n \in Nodes |-> "idle"]
    /\ exec_count = [n \in Nodes |-> 0]
    /\ done_count = [n \in Nodes |-> 0]
    /\ pending_writes = {}
    /\ early_start = {}
    /\ StateDefaults

\* the channels of the state, which only the end of a superstep writes
channels == <<hardware_spec, reranked_candidates, filtered_candidates,
              hardware_filtered, activity_candidates, quality_candidates>>

\* a node of the superstep starts
NodeStart(n) ==
    /\ run_state = "running"
    /\ n \in step_tasks
    /\ node_status[n] = "idle"
    /\ node_status' = [node_status EXCEPT ![n] = "running"]
    /\ exec_count' = [exec_count EXCEPT ![n] = @ + 1]
    /\ early_start' = IF \E p \in Preds(n) : done_count[p] = 0
                      THEN early_start \cup {n} ELSE early_start
    /\ UNCHANGED <<run_state, step_tasks, done_count, pending_writes, channels,
                   repo, modified, call_log, tool_outcome>>
    /\ UNCHANGED notGraphVars

\* what every completion does to the engine's bookkeeping
Finish(n, writes) ==
    /\ run_state = "running"
    /\ n \in step_tasks
    /\ node_status[n] = "running"
    /\ node_status' = [node_status EXCEPT ![n] = "done"]
    /\ done_count' = [done_count EXCEPT ![n] = @ + 1]
    /\ pending_writes' = pending_writes \cup writes
    /\ UNCHANGED <<run_state, step_tasks, exec_count, early_start, channels>>
    /\ UNCHANGED notGraphVars

\* a node leaves with an exception: graph.invoke raises it, the run is over
\* and the updates of the superstep are not applied
Fail(n) ==
    /\ run_state = "running"
    /\ n \in step_tasks
    /\ node_status[n] = "running"
    /\ run_state' = "failed"
    /\ node_status' = [node_status EXCEPT ![n] = "raised"]
    /\ UNCHANGED <<step_tasks, exec_count, done_count, early_start, pending_writes,
                   channels>>
    /\ UNCHANGED notGraphVars

\* the same, of a node that has changed no dict
Raise(n) ==
    /\ Fail(n)
    /\ UNCHANGED <<repo, modified, call_log, tool_outcome>>

\* the stages whose code is not part of the model and whose output no modelled
\* stage reads
OpaqueNodes == {"convert_searchable_query", "ingest_github_repos",
                "neural_dense_retrieval", "decision_maker", "merge_analysis",
                "multi_factor_ranking", "output_presentation"}

Complete_opaque(n) ==
    /\ n \in OpaqueNodes
    /\ Finish(n, {})
    /\ UNCHANGED <<repo, modified, call_log, tool_outcome>>

\* parse_hardware_spec: the hardware hint is empty or not
Complete_parse_hardware ==
    /\ \E hw \in {"", "low-resource GPU"} :
          Finish("parse_hardware", {<<"hardware_spec", hw>>})
    /\ UNCHANGED <<repo, modified, call_log, tool_outcome>>

\* cross_encoder_reranking: hands over the candidate dicts, in list order
Complete_cross_encoder_reranking ==
    \E n \in 0..MaxRepos :
      \E h \in [1..n -> RepoInputs] :
        /\ Finish("cross_encoder_reranking",
                  {<<"reranked_candidates", [i \in 1..n |-> i]>>})
        /\ repo' = [i \in RepoIds |-> IF i <= n THEN h[i] ELSE NoRepo]
        /\ UNCHANGED <<modified, call_log, tool_outcome>>

Complete_threshold_filtering ==
    LET out == threshold_filtering(reranked_candidates, hardware_spec,
                                   hardware_filtered, repo)
    IN  /\ Finish("threshold_filtering", {<<"filtered_candidates", out>>})
        /\ modified' = {}
        /\ call_log' = [stage |-> "threshold_filtering",
                        input |-> reranked_candidates, output |-> out]
        /\ UNCHANGED <<repo, tool_outcome>>

\* dependency_analysis returns, or leaves with the exception of a task
Complete_dependency_analysis ==
    \E env \in [Range(filtered_candidates) -> DepAnswers],
       done_order \in Orders(Range(filtered_candidates)) :
      IF dependency_analysis_raises(hardware_spec, filtered_candidates, repo, env)
      THEN Raise("dependency_analysis")
      ELSE LET out == dependency_analysis_async(hardware_spec, filtered_candidates,
                                                repo, env, done_order)
           IN  /\ Finish("dependency_analysis", {<<"hardware_filtered", out>>})
               /\ call_log' = [stage |-> "dependency_analysis",
                               input |-> filtered_candidates, output |-> out]
               /\ UNCHANGED <<repo, modified, tool_outcome>>

\* repository_activity_analysis returns, or leaves with the exception of a
\* candidate's request; the dicts analysed so far have their fields
Complete_repository_activity_analysis ==
    \E outcome \in [Range(filtered_candidates) -> ActivityOutcomes] :
      LET analysed == activity_prefix(filtered_candidates, outcome)
      IN  /\ IF repository_activity_raises(filtered_candidates, outcome)
             THEN Fail("repository_activity_analysis")
             ELSE Finish("repository_activity_analysis",
                         {<<"activity_candidates",
                            repository_activity_analysis(filtered_candidates)>>})
          /\ repo' = activity_heap(analysed, repo)
          /\ modified' = modified \cup Changed(repo, activity_heap(analysed, repo))
          /\ UNCHANGED <<call_log, tool_outcome>>

Complete_code_quality_analysis ==
    \E outcome \in [Range(filtered_candidates) -> ToolOutcomes],
       done_order \in Orders(Range(filtered_candidates)) :
      /\ Finish("code_quality_analysis",
                {<<"quality_candidates",
                   code_quality_analysis_async(filtered_candidates, done_order)>>})
      /\ repo' = quality_heap(filtered_candidates, repo, outcome)
      /\ modified' = modified \cup
                        Changed(repo, quality_heap(filtered_candidates, repo, outcome))
      /\ tool_outcome' = [i \in RepoIds |->
                            IF i \in Range(filtered_candidates)
                            THEN (IF outcome[i] \in ToolFailures THEN "failed" ELSE "ok")
                            ELSE tool_outcome[i]]
      /\ UNCHANGED call_log

\* the value a channel has after the superstep's updates are applied
Applied(key, old) ==
    IF \E w \in pending_writes : w[1] = key
    THEN (CHOOSE w \in pending_writes : w[1] = key)[2]
    ELSE old

\* all nodes of the superstep are done: apply their updates, trigger the next ones
StepEnd ==
    /\ run_state = "running"
    /\ \A n \in step_tasks : node_status[n] = "done"
    /\ hardware_spec' = Applied("hardware_spec", hardware_spec)
    /\ reranked_candidates' = Applied("reranked_candidates", reranked_candidates)
    /\ filtered_candidates' = Applied("filtered_candidates", filtered_candidates)
    /\ hardware_filtered' = Applied("hardware_filtered", hardware_filtered)
    /\ activity_candidates' = Applied("activity_candidates", activity_candidates)
    /\ quality_candidates' = Applied("quality_candidates", quality_candidates)
    /\ pending_writes' = {}
    /\ step_tasks' = TriggeredBy(step_tasks)
    /\ node_status' = [n \in Nodes |-> "idle"]
    /\ run_state' = IF TriggeredBy(step_tasks) = {} THEN "finished" ELSE "running"
    /\ UNCHANGED <<exec_count, done_count, early_start, repo, modified, call_log,
                   tool_outcome>>
    /\ UNCHANGED notGraphVars

Next_Graph ==
    \/ \E n \in Nodes : NodeStart(n)
    \/ \E n \in Nodes : Complete_opaque(n)
    \/ Complete_parse_hardware
    \/ Complete_cross_encoder_reranking
    \/ Complete_threshold_filtering
    \/ Complete_dependency_analysis
    \/ Complete_repository_activity_analysis
    \/ Complete_code_quality_analysis
    \/ StepEnd

(***************************************************************************)
(* A filter stage called on a state outside a run of the graph: the stage  *)
(* functions take any AgentState.  The function assigns its result to the  *)
(* state it was given (filtering.py line 42, dependency_analysis.py lines  *)
(* 167 and 206).                                                           *)
(***************************************************************************)
\* lists of references to distinct repo dicts
RefLists == UNION {{l \in [1..n -> RepoIds] : \A i, j \in 1..n : i # j => l[i] # l[j]} :
                     n \in 0..MaxRepos}

StageStart ==
    /\ run_state = "direct"
    /\ step_tasks = {}
    /\ node_status = [n \in Nodes |-> "idle"]
    /\ exec_count = [n \in Nodes |-> 0]
    /\ done_count = [n \in Nodes |-> 0]
    /\ pending_writes = {}
    /\ early_start = {}
    /\ hardware_spec \in {"", "low-resource GPU"}
    /\ reranked_candidates \in RefLists
    /\ hardware_filtered \in RefLists
    /\ filtered_candidates = <<>>
    /\ activity_candidates = <<>>
    /\ quality_candidates = <<>>
    /\ repo \in [RepoIds -> {r \in RepoInputs : r.clone_url}]
    /\ modified = {}
    /\ call_log = NoCall
    /\ tool_outcome = [i \in RepoIds |-> "-"]

Call_threshold_filtering ==
    /\ run_state = "direct"
    /\ LET out == threshold_filtering(reranked_candidates, hardware_spec,
                                      hardware_filtered, repo)
       IN  /\ filtered_candidates' = out
           /\ call_log' = [stage |-> "threshold_filtering",
                           input |-> reranked_candidates, output |-> out]
    /\ UNCHANGED <<run_state, step_tasks, node_status, exec_count, done_count,
                   pending_writes, early_start, hardware_spec, reranked_candidates,
                   hardware_filtered, activity_candidates, quality_candidates, repo,
                   modified, tool_outcome>>
    /\ UNCHANGED notGraphVars

Call_dependency_analysis ==
    /\ run_state = "direct"
    /\ \E env \in [Range(filtered_candidates) -> DepAnswers],
          done_order \in Orders(Range(filtered_candidates)) :
         /\ ~dependency_analysis_raises(hardware_spec, filtered_candidates, repo, env)
         /\ LET out == dependency_analysis_async(hardware_spec, filtered_candidates,
                                                 repo, env, done_order)
            IN  /\ hardware_filtered' = out
                /\ call_log' = [stage |-> "dependency_analysis",
                                input |-> filtered_candidates, output |-> out]
    /\ UNCHANGED <<run_state, step_tasks, node_status, exec_count, done_count,
                   pending_writes, early_start, hardware_spec, reranked_candidates,
                   filtered_candidates, activity_candidates, quality_candidates, repo,
                   modified, tool_outcome>>
    /\ UNCHANGED notGraphVars

Next_Stage ==
    \/ Call_threshold_filtering
    \/ Call_dependency_analysis


(***************************************************************************)
(* src/tools/dependency_analysis.py: _gh_raw behind @alru_cache            *)
(***************************************************************************)
Callers == 1..MaxCallers

\* the keys (owner, repo, path): one more than the cache holds
Keys == 1..(maxsize + 1)

\* _gh_raw, line 24
MAX_RETRIES == 3
\* _gh_raw, line 25
INITIAL_DELAY == 2

RECURSIVE Pow2(_)
Pow2(n) == IF n = 0 THEN 1 ELSE 2 * Pow2(n - 1)

\* X-Ratelimit-Reset minus int(time.time()), lines 49-55: the reset lies in the
\* past, within the first backoff steps, or beyond them
ResetIn == {0 - 1, 3, 20}

\* what one request can end in (lines 30-80).  "bad" stands for what _gh_raw
\* does not catch: a body that r.json() or the base64 decoding rejects, a reset
\* header that int() rejects, an exception other than the three httpx ones.
Responses ==
    {[kind |-> k, has_reset |-> FALSE, reset_in |-> 0] :
        k \in {"ok", "notfound", "ratelimit", "unexpected", "neterror", "bad"}}
    \cup {[kind |-> "ratelimit", has_reset |-> TRUE, reset_in |-> d] : d \in ResetIn}

\* a backoff that grows by a step instead of doubling
backoff_delay_linear(a) == INITIAL_DELAY * (a + 1)

\* lines 58, 69, 78: INITIAL_DELAY * (2 ** attempt)
backoff_delay(a) == INITIAL_DELAY * Pow2(a)

\* a wait capped by the reset time: min where the code takes max
rate_limit_delay_capped(r, a) ==
    IF r.has_reset
    THEN (IF r.reset_in <= backoff_delay(a) THEN r.reset_in ELSE backoff_delay(a))
    ELSE backoff_delay(a)

\* lines 53-58: the wait after a 403 or 429
rate_limit_delay(r, a) ==
    IF r.has_reset THEN Max(r.reset_in, backoff_delay(a)) ELSE backoff_delay(a)

\* the wait _gh_raw sleeps after a response it retries
retry_delay(r, a) ==
    IF r.kind = "ratelimit" THEN rate_limit_delay(r, a) ELSE backoff_delay(a)

\* the position of a key in the cache, 0 when it has no entry
CachePos(k) ==
    IF \E i \in DOMAIN cache : cache[i].key = k
    THEN CHOOSE i \in DOMAIN cache : cache[i].key = k
    ELSE 0

CacheKeys == {cache[i].key : i \in DOMAIN cache}

RemoveAt(s, i) == SubSeq(s, 1, i - 1) \o SubSeq(s, i + 1, Len(s))

\* alru_cache on a hit: the entry becomes the most recently used
move_to_end(c, i) == RemoveAt(c, i) \o <<c[i]>>

\* alru_cache on a miss: the new entry is added and, over maxsize, the least
\* recently used entry is dropped (its request sequence, if any, runs on)
cache_insert(c, e) ==
    LET added == Append(c, e)
    IN  IF Len(added) > maxsize THEN Tail(added) ELSE added

\* alru_cache when a request sequence returns: its future gets the result; the
\* entry, if the cache still holds it, now answers with it
cache_set_result(c, k, owner, res) ==
    [i \in DOMAIN c |->
        IF c[i].key = k /\ c[i].owner = owner /\ c[i].result = "pending"
        THEN [c[i] EXCEPT !.result = res]
        ELSE c[i]]

\* alru_cache when a request sequence raises: the key's entry is dropped
cache_pop(c, k) ==
    LET i == CHOOSE j \in DOMAIN c : c[j].key = k
    IN  IF \E j \in DOMAIN c : c[j].key = k THEN RemoveAt(c, i) ELSE c

FetchStart(callers, trace) ==
    /\ fcallers = callers
    /\ ftrace = trace
    /\ cache = <<>>
    /\ fpc = [c \in Callers |-> "idle"]
    /\ fkey = [c \in Callers |-> 0]
    /\ attempt = [c \in Callers |-> 0]
    /\ nreq = [c \in Callers |-> 0]
    /\ fwaits = [c \in Callers |-> <<>>]
    /\ fresult = [c \in Callers |-> "-"]
    /\ fhow = [c \in Callers |-> "-"]
    /\ awaiting = [c \in Callers |-> 0]
    /\ ncalls = [c \in Callers |-> 0]
    /\ settled = [k \in Keys |-> FALSE]
    /\ absent404 = [k \in Keys |-> FALSE]
    /\ last_gaveup = [k \in Keys |-> FALSE]
    /\ pre_settled = [c \in Callers |-> FALSE]
    /\ pre_absent = [c \in Callers |-> FALSE]
    /\ pre_gaveup = [c \in Callers |-> FALSE]

\* A task calls _gh_raw(owner, repo, path, token): the wrapper of alru_cache
\* looks the key up.  A finished entry answers at once; a pending entry makes
\* the caller await the request sequence in flight; a miss starts _gh_raw, whose
\* first statement that suspends is the first request (line 30).
Call(c, k) ==
    /\ c \in fcallers
    /\ fpc[c] = "idle"
    /\ ncalls[c] < MaxCalls
    /\ ncalls' = [ncalls EXCEPT ![c] = @ + 1]
    /\ fkey' = [fkey EXCEPT ![c] = k]
    /\ pre_settled' = [pre_settled EXCEPT ![c] = settled[k]]
    /\ pre_absent' = [pre_absent EXCEPT ![c] = absent404[k]]
    /\ pre_gaveup' = [pre_gaveup EXCEPT ![c] = last_gaveup[k]]
    /\ attempt' = [attempt EXCEPT ![c] = 0]
    /\ fwaits' = [fwaits EXCEPT ![c] = <<>>]
    /\ LET i == CachePos(k)
       IN  IF i = 0
           THEN /\ cache' = cache_insert(cache, [key |-> k, owner |-> c, result |-> "pending"])
                /\ fpc' = [fpc EXCEPT ![c] = "request"]
                /\ nreq' = [nreq EXCEPT ![c] = 1]
                /\ UNCHANGED <<fresult, fhow, awaiting>>
           ELSE IF cache[i].result = "pending"
           THEN /\ cache' = move_to_end(cache, i)
                /\ fpc' = [fpc EXCEPT ![c] = "wait"]
                /\ awaiting' = [awaiting EXCEPT ![c] = cache[i].owner]
                /\ nreq' = [nreq EXCEPT ![c] = 0]
                /\ UNCHANGED <<fresult, fhow>>
           ELSE /\ cache' = move_to_end(cache, i)
                /\ fpc' = [fpc EXCEPT ![c] = "done"]
                /\ fresult' = [fresult EXCEPT ![c] = cache[i].result]
                /\ fhow' = [fhow EXCEPT ![c] = "hit"]
                /\ nreq' = [nreq EXCEPT ![c] = 0]
                /\ UNCHANGED awaiting
    /\ UNCHANGED <<fcallers, ftrace, settled, absent404, last_gaveup>>
    /\ UNCHANGED notFetchVars

\* the callers that await the request sequence of caller c
Waiters(c) == {w \in Callers : fpc[w] = "wait" /\ awaiting[w] = c}

\* The request sequence of caller c ends: _gh_raw returns res or raises.  The
\* caller and every task awaiting the same future get the outcome.
Complete(c, res, how) ==
    LET k == fkey[c]
        got == Waiters(c)
    IN  /\ cache' = IF res = "raise" THEN cache_pop(cache, k)
                    ELSE cache_set_result(cache, k, c, res)
        /\ fpc' = [x \in Callers |-> IF x = c \/ x \in got THEN "done" ELSE fpc[x]]
        /\ fresult' = [x \in Callers |-> IF x = c \/ x \in got THEN res ELSE fresult[x]]
        /\ fhow' = [x \in Callers |->
                       IF x = c THEN how ELSE IF x \in got THEN "shared" ELSE fhow[x]]
        /\ awaiting' = [x \in Callers |-> IF x \in got THEN 0 ELSE awaiting[x]]
        /\ settled' = [settled EXCEPT ![k] = @ \/ how \in {"ok", "notfound"}]
        /\ absent404' = [absent404 EXCEPT ![k] = @ \/ how = "notfound"]
        /\ last_gaveup' = [last_gaveup EXCEPT ![k] = (how = "gaveup")]

\* the response to the request in flight arrives (lines 30-80)
Respond(c, r) ==
    /\ c \in fcallers
    /\ fpc[c] = "request"
    /\ r \in Responses
    /\ CASE r.kind = "ok" ->
              /\ Complete(c, "content", "ok")
              /\ UNCHANGED <<fwaits>>
         [] r.kind = "notfound" ->
              /\ Complete(c, "none", "notfound")
              /\ UNCHANGED <<fwaits>>
         [] r.kind = "bad" ->
              /\ Complete(c, "raise", "raised")
              /\ UNCHANGED <<fwaits>>
         [] OTHER ->
              /\ fpc' = [fpc EXCEPT ![c] = "sleep"]
              /\ fwaits' = [fwaits EXCEPT ![c] =
                              IF ftrace
                              THEN Append(@, [delay |-> retry_delay(r, attempt[c]),
                                              kind |-> r.kind,
                                              has_reset |-> r.has_reset,
                                              reset_in |-> r.reset_in])
                              ELSE @]
              /\ UNCHANGED <<cache, fresult, fhow, awaiting, settled, absent404,
                             last_gaveup>>
    /\ UNCHANGED <<fcallers, ftrace, fkey, attempt, nreq, ncalls, pre_settled,
                   pre_absent, pre_gaveup>>
    /\ UNCHANGED notFetchVars

\* asyncio.sleep(delay) is over: `continue` takes the next attempt, or the loop
\* is exhausted and _gh_raw returns None (lines 28, 85-86)
Wake(c) ==
    /\ c \in fcallers
    /\ fpc[c] = "sleep"
    /\ attempt' = [attempt EXCEPT ![c] = @ + 1]
    /\ IF attempt[c] + 1 < MAX_RETRIES
       THEN /\ fpc' = [fpc EXCEPT ![c] = "request"]
            /\ nreq' = [nreq EXCEPT ![c] = @ + 1]
            /\ UNCHANGED <<cache, fresult, fhow, awaiting, settled, absent404,
                           last_gaveup>>
       ELSE /\ Complete(c, "none", "gaveup")
            /\ UNCHANGED nreq
    /\ UNCHANGED <<fcallers, ftrace, fkey, fwaits, ncalls, pre_settled, pre_absent,
                   pre_gaveup>>
    /\ UNCHANGED notFetchVars

\* the caller has its answer and goes on
Return(c) ==
    /\ c \in fcallers
    /\ fpc[c] = "done"
    /\ fpc' = [fpc EXCEPT ![c] = "idle"]
    /\ fkey' = [fkey EXCEPT ![c] = 0]
    /\ attempt' = [attempt EXCEPT ![c] = 0]
    /\ nreq' = [nreq EXCEPT ![c] = 0]
    /\ fwaits' = [fwaits EXCEPT ![c] = <<>>]
    /\ fresult' = [fresult EXCEPT ![c] = "-"]
    /\ fhow' = [fhow EXCEPT ![c] = "-"]
    /\ pre_settled' = [pre_settled EXCEPT ![c] = FALSE]
    /\ pre_absent' = [pre_absent EXCEPT ![c] = FALSE]
    /\ pre_gaveup' = [pre_gaveup EXCEPT ![c] = FALSE]
    /\ UNCHANGED <<fcallers, ftrace, cache, awaiting, ncalls, settled, absent404,
                   last_gaveup>>
    /\ UNCHANGED notFetchVars

Next_Fetch ==
    \/ \E c \in Callers, k \in Keys : Call(c, k)
    \/ \E c \in Callers, r \in Responses : Respond(c, r)
    \/ \E c \in Callers : Wake(c)
    \/ \E c \in Callers : Return(c)


(***************************************************************************)
(* src/tools/dependency_analysis.py: the concurrent tasks of the stage,    *)
(* the semaphore that admits them to _collect_deps and the rate limiter    *)
(* that admits them to the judgment call.                                  *)
(***************************************************************************)
\* asyncio.Semaphore(5), line 174
SemPermits == 5

\* AsyncLimiter(1, time_period=30.0), line 14
max_rate == 1
time_period == 30

\* the step by which the model's clock advances
TickLen == time_period \div 3

Min(a, b) == IF a <= b THEN a ELSE b

RECURSIVE SumOver(_, _)
SumOver(f, S) ==
    IF S = {} THEN 0
    ELSE LET x == CHOOSE y \in S : TRUE IN f[x] + SumOver(f, S \ {x})

\* the candidate lists: "octo/alpha" everywhere but at up to MaxNoSlash places
CandLists == UNION {{l \in [1..n -> {"octo/alpha", "noslash"}] :
                        Cardinality({i \in 1..n : l[i] = "noslash"}) <= MaxNoSlash} :
                      n \in 1..MaxCands}

DepsStart ==
    /\ dstage = "idle"
    /\ dhw = TRUE
    /\ dfull = <<>>
    /\ dpc = <<>>
    /\ sem_value = SemPermits
    /\ sem_waiters = <<>>
    /\ permit = <<>>
    /\ inflight = <<>>
    /\ has_deps = <<>>
    /\ nfetch = <<>>
    /\ njudge = <<>>
    /\ verdict = <<>>
    /\ lim_level = 0
    /\ since_call = time_period
    /\ call_gaps = <<>>
    /\ dkept = <<>>

\* a semaphore that never refuses
sem_never_locked(value) == FALSE

\* asyncio.Semaphore.locked(): no permit is left
sem_locked(value) == value = 0

\* the candidates that are inside _collect_deps
Inside == {i \in DOMAIN dpc : dpc[i] = "collecting"}

\* lines 176-183, the first step of every task, in the order in which gather
\* created them: a full_name without "/" returns its repo at once; the others
\* take a permit while one is left and start the two manifest fetches of
\* _collect_deps (lines 99-102), or queue up for a permit.
\* first_step(l)[i] is what task i has done when all tasks have run their
\* first step: k is the number of tasks before i that took a permit.
SlashBefore(l, i) == Cardinality({j \in 1..(i - 1) : HasSlash(l[j])})

first_step(l) ==
    [i \in DOMAIN l |->
        IF ~HasSlash(l[i]) THEN "kept"
        ELSE IF ~sem_locked(Max(SemPermits - SlashBefore(l, i), 0)) THEN "collecting"
        ELSE "waiting"]

\* lines 163-168, 203: the stage begins.  Without a hardware hint it returns
\* the candidates as they are; with one it gathers one task per candidate.
Stage_begin ==
    /\ dstage = "idle"
    /\ \E l \in CandLists, hw \in BOOLEAN :
         LET pc == first_step(l)
             admitted == {i \in DOMAIN l : pc[i] = "collecting"}
         IN  /\ dfull' = l
             /\ dhw' = hw
             /\ dstage' = IF hw THEN "running" ELSE "done"
             /\ dkept' = IF hw THEN <<>> ELSE [i \in DOMAIN l |-> i]
             /\ dpc' = IF hw THEN pc ELSE [i \in DOMAIN l |-> "new"]
             /\ permit' = [i \in DOMAIN l |-> hw /\ i \in admitted]
             /\ inflight' = [i \in DOMAIN l |-> IF hw /\ i \in admitted THEN 2 ELSE 0]
             /\ nfetch' = [i \in DOMAIN l |-> IF hw /\ i \in admitted THEN 2 ELSE 0]
             /\ njudge' = [i \in DOMAIN l |-> 0]
             /\ verdict' = [i \in DOMAIN l |-> "-"]
             /\ has_deps' = [i \in DOMAIN l |-> FALSE]
             /\ sem_value' = IF hw THEN SemPermits - Cardinality(admitted) ELSE SemPermits
             /\ sem_waiters' = IF hw
                               THEN FilterSeq([i \in DOMAIN l |-> i],
                                              {i \in DOMAIN l : pc[i] = "waiting"})
                               ELSE <<>>
    /\ UNCHANGED <<lim_level, since_call, call_gaps>>
    /\ UNCHANGED notDepsVars

\* a process_repo that asks for a judgment whatever _collect_deps returned
needs_judgment_always(deps) == TRUE

\* process_repo, lines 185-186: `if not deps: return repo`; only a candidate
\* with a dependency goes on to the judgment call
needs_judgment(deps) == deps

\* a block that keeps the permit of a candidate with dependencies for its
\* judgment call as well
sem_block_spans_judgment(deps) == ~deps

\* lines 182-183: "async with sem" holds the call of _collect_deps only: when
\* it returns the block is left and the permit given back, whether or not
\* the candidate has dependencies and goes on to the judgment call
sem_block_ends(deps) == TRUE

\* One of the two _gh_raw calls of a candidate returns, with content or with
\* None (a retried request counts as in flight until the call returns).  When
\* it is the second one, _collect_deps returns and the task leaves the
\* "async with sem" block (lines 182-183): the permit goes to the first
\* waiting task, which enters _collect_deps, or back to the semaphore.  A
\* candidate without dependencies is returned (lines 185-186), one with
\* dependencies goes on to the judgment call (line 193).
Fetch_done(i) ==
    /\ dstage = "running"
    /\ i \in Inside
    /\ inflight[i] > 0
    /\ \E found \in BOOLEAN :
         LET deps == has_deps[i] \/ found
             last == inflight[i] = 1
             released == last /\ sem_block_ends(deps)
             woken == IF released /\ sem_waiters # <<>> THEN {Head(sem_waiters)} ELSE {}
         IN  /\ found => Cardinality({j \in DOMAIN has_deps : has_deps[j]} \ {i})
                            < MaxWithDeps
             /\ has_deps' = [has_deps EXCEPT ![i] = deps]
             /\ inflight' = [j \in DOMAIN inflight |->
                               IF j = i THEN inflight[i] - 1
                               ELSE IF j \in woken THEN 2 ELSE inflight[j]]
             /\ nfetch' = [j \in DOMAIN nfetch |->
                               IF j \in woken THEN nfetch[j] + 2 ELSE nfetch[j]]
             /\ dpc' = [j \in DOMAIN dpc |->
                          IF j = i
                          THEN (IF ~last THEN "collecting"
                                ELSE IF needs_judgment(deps) THEN "throttled" ELSE "kept")
                          ELSE IF j \in woken THEN "collecting" ELSE dpc[j]]
             /\ sem_waiters' = IF woken # {} THEN Tail(sem_waiters) ELSE sem_waiters
             /\ sem_value' = IF released /\ woken = {} THEN sem_value + 1 ELSE sem_value
             /\ permit' = [j \in DOMAIN permit |->
                             IF j = i THEN permit[i] /\ ~released
                             ELSE IF j \in woken THEN TRUE ELSE permit[j]]
    /\ UNCHANGED <<dstage, dhw, dfull, njudge, verdict, lim_level, since_call, call_gaps,
                   dkept>>
    /\ UNCHANGED notDepsVars

\* A _gh_raw call of a candidate raises (line 73 catches three httpx errors
\* only).  The exception leaves _collect_deps and the "async with sem" block,
\* which gives the permit back, then process_repo and the gather of line 203:
\* the stage raises, and asyncio.run (line 209) cancels every task that is
\* left, each of which gives its permit back on its way out.
Fetch_raise(i) ==
    /\ dstage = "running"
    /\ i \in Inside
    /\ inflight[i] > 0
    /\ dstage' = "failed"
    /\ dpc' = [j \in DOMAIN dpc |->
                 IF dpc[j] \in {"kept", "dropped"} THEN dpc[j] ELSE "cancelled"]
    /\ inflight' = [j \in DOMAIN inflight |-> 0]
    /\ permit' = [j \in DOMAIN permit |-> FALSE]
    /\ sem_value' = sem_value + Cardinality({j \in DOMAIN permit : permit[j]})
    /\ sem_waiters' = <<>>
    /\ UNCHANGED <<dhw, dfull, has_deps, nfetch, njudge, verdict, lim_level, since_call,
                   call_gaps, dkept>>
    /\ UNCHANGED notDepsVars

\* a limiter that lets two calls into one period
has_capacity_double(level) == level + time_period <= 2 * max_rate * time_period

\* AsyncLimiter.has_capacity(1): the level, which drains by max_rate per
\* time_period, leaves room for one more (level + 1 <= max_rate, here in
\* seconds left to drain)
has_capacity(level) == level + time_period <= max_rate * time_period

\* what the judgment service answers, as a list of words: the text is split
\* at white space (line 127)
RawAnswers == {<<"yes", "it", "runs">>, <<"YES,", "with", "care">>, <<"No">>, <<>>}

\* str.upper() on the first words of RawAnswers
upper(w) == CASE w = "yes" -> "YES"
              [] w = "No" -> "NO"
              [] OTHER -> w

\* get_llm_compatibility, lines 121-132: the first word of the answer in upper
\* case; "NO" for an empty answer and when the call raises
get_llm_compatibility(raw, raised) ==
    IF raised THEN "NO"
    ELSE IF raw = <<>> THEN "NO"
    ELSE upper(Head(raw))

\* get_llm_compatibility, lines 114-132: the task passes the limiter, the
\* judgment service is called, and the first word of its answer decides
\* (an exception of the call counts as "NO"); lines 196-200.
Judge(i) ==
    /\ dstage = "running"
    /\ i \in DOMAIN dpc
    /\ dpc[i] = "throttled"
    /\ has_capacity(lim_level)
    /\ lim_level' = lim_level + time_period
    /\ call_gaps' = IF SumOver(njudge, DOMAIN njudge) = 0 THEN call_gaps
                    ELSE Append(call_gaps, since_call)
    /\ since_call' = 0
    /\ njudge' = [njudge EXCEPT ![i] = @ + 1]
    /\ \E raw \in RawAnswers, raised \in BOOLEAN :
          LET ans == get_llm_compatibility(raw, raised)
          IN  /\ verdict' = [verdict EXCEPT ![i] = ans]
              /\ dpc' = [dpc EXCEPT ![i] = IF ans = "YES" THEN "kept" ELSE "dropped"]
    /\ UNCHANGED <<dstage, dhw, dfull, sem_value, sem_waiters, permit, inflight,
                   has_deps, nfetch, dkept>>
    /\ UNCHANGED notDepsVars

\* time passes: the limiter drains
Tick ==
    /\ dstage = "running"
    /\ since_call < time_period
    /\ lim_level' = Max(lim_level - TickLen * max_rate, 0)
    /\ since_call' = Min(since_call + TickLen, time_period)
    /\ UNCHANGED <<dstage, dhw, dfull, dpc, sem_value, sem_waiters, permit, inflight,
                   has_deps, nfetch, njudge, verdict, call_gaps, dkept>>
    /\ UNCHANGED notDepsVars

\* lines 203-207: every task has returned; the repos that are not None are
\* kept, in the order of the gathered list
Stage_end ==
    /\ dstage = "running"
    /\ \A i \in DOMAIN dpc : dpc[i] \in {"kept", "dropped"}
    /\ dkept' = FilterSeq(gather([i \in DOMAIN dpc |-> i], <<>>,
                                 [i \in DOMAIN dpc |->
                                    IF dpc[i] = "kept" THEN i ELSE None]),
                          DOMAIN dpc)
    /\ dstage' = "done"
    /\ UNCHANGED <<dhw, dfull, dpc, sem_value, sem_waiters, permit, inflight, has_deps,
                   nfetch, njudge, verdict, lim_level, since_call, call_gaps>>
    /\ UNCHANGED notDepsVars

Next_Deps ==
    \/ Stage_begin
    \/ \E i \in 1..MaxCands : Fetch_done(i)
    \/ \E i \in 1..MaxCands : Fetch_raise(i)
    \/ \E i \in 1..MaxCands : Judge(i)
    \/ Tick
    \/ Stage_end


(***************************************************************************)
(* src/server.py: analyze_repo_quality                                     *)
(***************************************************************************)
\* How deleting an entry of the directory goes: at once; refused until the
\* entry is made writable (a read-only file); refused even then.
EntryKinds == {"plain", "readonly", "stuck"}

\* remove_readonly, lines 17-19: os.chmod(path, stat.S_IWRITE); func(path).
\* TRUE when the retried deletion succeeds, FALSE when it raises.
remove_readonly(kind) == kind # "stuck"

\* shutil.rmtree(temp_dir, onerror=remove_readonly), line 94: TRUE when the
\* whole tree is removed, FALSE when an exception leaves rmtree
rmtree(entries) ==
    \A i \in DOMAIN entries : entries[i] = "plain" \/ remove_readonly(entries[i])

\* the score with the first branch taken for issues_per_file < 2 only
quality_score_strict(e, f) ==
    IF e < 2 * f THEN (190 * f + (2 * f - e) * 5) \div (2 * f)
    ELSE IF e <= 5 * f THEN (140 * f + (5 * f - e) * 13) \div (2 * f)
    ELSE IF e <= 10 * f THEN (40 * f + (10 * f - e) * 3) \div f
    ELSE IF (40 * f - (e - 10 * f) * 2) <= 10 * f THEN 10
    ELSE (40 * f - (e - 10 * f) * 2) \div f

\* lines 74-84: int(score) for error_count e and total_files f >= 1.  The
\* float expressions are evaluated exactly: issues_per_file is e/f, so each
\* branch is a fraction over 2f or f, truncated.
quality_score(e, f) ==
    IF e <= 2 * f THEN (190 * f + (2 * f - e) * 5) \div (2 * f)
    ELSE IF e <= 5 * f THEN (140 * f + (5 * f - e) * 13) \div (2 * f)
    ELSE IF e <= 10 * f THEN (40 * f + (10 * f - e) * 3) \div f
    ELSE IF (40 * f - (e - 10 * f) * 2) <= 10 * f THEN 10
    ELSE (40 * f - (e - 10 * f) * 2) \div f

\* lines 34-39
NewResult == [code_quality_score |-> 0, code_quality_issues |-> 0,
              python_files |-> 0, details |-> ""]

SandboxStart ==
    /\ spc = "idle"
    /\ hung = FALSE
    /\ cpc = "idle"
    /\ tmp_exists = FALSE
    /\ ws_entries = <<>>
    /\ total_files = 0
    /\ error_count = 0
    /\ analyzed = FALSE
    /\ result_data = NewResult

EntryLists == UNION {[1..n -> EntryKinds] : n \in 0..MaxEntries}

\* src/tools/code_quality.py lines 110-120: call_mcp_tool starts a worker and
\* awaits client.call_tool; no await of the function carries a timeout
Tool_call ==
    /\ cpc = "idle"
    /\ spc = "idle"
    /\ cpc' = "awaiting"
    /\ UNCHANGED <<spc, hung, tmp_exists, ws_entries, total_files, error_count,
                   analyzed, result_data>>
    /\ UNCHANGED notSandVars

\* lines 27-39: the call begins, the temporary directory is made
Analyze_begin ==
    /\ cpc = "awaiting"
    /\ spc = "idle"
    /\ spc' = "clone"
    /\ tmp_exists' = TRUE
    /\ result_data' = NewResult
    /\ UNCHANGED <<hung, cpc, ws_entries, total_files, error_count, analyzed>>
    /\ UNCHANGED notSandVars

\* lines 45-62: git clone succeeds and the Python files are counted; with none
\* the function returns from inside the try block
Clone_ok ==
    /\ spc = "clone"
    /\ ~hung
    /\ \E f \in 0..MaxFiles, es \in EntryLists :
          /\ ws_entries' = es
          /\ total_files' = f
          /\ result_data' = [result_data EXCEPT !.python_files = f]
          /\ spc' = IF f = 0 THEN "cleanup" ELSE "flake8"
    /\ UNCHANGED <<hung, cpc, tmp_exists, error_count, analyzed>>
    /\ UNCHANGED notSandVars

\* lines 45-49: subprocess.run is called without timeout, so it returns only
\* when git exits; a clone that stalls (a server that stops answering, a
\* prompt for credentials) never does
Clone_hang ==
    /\ spc = "clone"
    /\ ~hung
    /\ hung' = TRUE
    /\ UNCHANGED <<spc, cpc, tmp_exists, ws_entries, total_files, error_count,
                   analyzed, result_data>>
    /\ UNCHANGED notSandVars

\* lines 45-49, 88-90: git clone fails (check=True raises), whatever it has
\* written so far stays in the directory
Clone_fail ==
    /\ spc = "clone"
    /\ ~hung
    /\ \E es \in EntryLists : ws_entries' = es
    /\ result_data' = [result_data EXCEPT !.details = "error"]
    /\ spc' = "cleanup"
    /\ UNCHANGED <<hung, cpc, tmp_exists, total_files, error_count, analyzed>>
    /\ UNCHANGED notSandVars

\* lines 65-86: flake8 runs to its end and the score is computed
Flake8_ok ==
    /\ spc = "flake8"
    /\ ~hung
    /\ \E e \in 0..MaxErrors :
          /\ error_count' = e
          /\ result_data' = [result_data EXCEPT
                               !.code_quality_score = quality_score(e, total_files),
                               !.code_quality_issues = e,
                               !.details = IF e = 0 THEN "" ELSE "output"]
    /\ analyzed' = TRUE
    /\ spc' = "cleanup"
    /\ UNCHANGED <<hung, cpc, tmp_exists, ws_entries, total_files>>
    /\ UNCHANGED notSandVars

\* lines 65-69: the flake8 run has no timeout either
Flake8_hang ==
    /\ spc = "flake8"
    /\ ~hung
    /\ hung' = TRUE
    /\ UNCHANGED <<spc, cpc, tmp_exists, ws_entries, total_files, error_count,
                   analyzed, result_data>>
    /\ UNCHANGED notSandVars

\* lines 65-69, 88-90: running flake8 raises
Flake8_fail ==
    /\ spc = "flake8"
    /\ ~hung
    /\ result_data' = [result_data EXCEPT !.details = "error"]
    /\ spc' = "cleanup"
    /\ UNCHANGED <<hung, cpc, tmp_exists, ws_entries, total_files, error_count,
                   analyzed>>
    /\ UNCHANGED notSandVars

\* lines 91-98: the finally block; an exception of rmtree is swallowed, and the
\* function returns str(result_data)
Cleanup_return ==
    /\ spc = "cleanup"
    /\ tmp_exists' = ~rmtree(ws_entries)
    /\ spc' = "returned"
    /\ UNCHANGED <<hung, cpc, ws_entries, total_files, error_count, analyzed,
                   result_data>>
    /\ UNCHANGED notSandVars

\* src/tools/code_quality.py lines 120-152: the server's answer arrives and
\* call_mcp_tool returns its repo
Tool_return ==
    /\ cpc = "awaiting"
    /\ spc = "returned"
    /\ cpc' = "returned"
    /\ UNCHANGED <<spc, hung, tmp_exists, ws_entries, total_files, error_count,
                   analyzed, result_data>>
    /\ UNCHANGED notSandVars

Next_Sandbox ==
    \/ Tool_call
    \/ Analyze_begin
    \/ Clone_ok
    \/ Clone_hang
    \/ Clone_fail
    \/ Flake8_ok
    \/ Flake8_hang
    \/ Flake8_fail
    \/ Cleanup_return
    \/ Tool_return


(***************************************************************************)
(* src/tools/code_quality.py: the concurrent tasks of the stage, one       *)
(* call_mcp_tool per candidate, each with a client and a worker of its     *)
(* own.                                                                    *)
(***************************************************************************)
\* the candidates code_quality_analysis is given
MaxQCands == 3

\* an exception object in a gathered list
AnException == 0 - 2

\* the fields call_mcp_tool writes
Fields(r) == [code_quality_score |-> r.code_quality_score, details |-> r.details]

NoFields == [code_quality_score |-> UNSET, details |-> ""]

\* the candidate dicts after the loop of lines 168-171: a missing clone_url
\* has been filled in, one that is present and empty stays empty
QRepos == {[clone_url |-> u, code_quality_score |-> UNSET, details |-> ""] : u \in BOOLEAN}

QCandLists == UNION {[1..n -> QRepos] : n \in 1..MaxQCands}

QualStart ==
    /\ qstage = "idle"
    /\ qrepo = <<>>
    /\ qpc = <<>>
    /\ worker = <<>>
    /\ closes = <<>>
    /\ close_failed = <<>>
    /\ primary = <<>>
    /\ qresult = <<>>
    /\ qlist = <<>>

\* How the teardown inside close() goes: exit_stack.aclose() returns, or it
\* raises (the worker does not stop, a pipe is broken, a context manager of
\* the stack fails on exit).
Teardowns == {"ok", "error"}

\* a close() that lets the teardown's exception out
close_propagating(teardown) == teardown = "error"

\* MCPClient.close, lines 38-48: whether an exception leaves close().  The
\* exception of aclose() is caught by `except Exception: pass`.
close(teardown) == FALSE

\* the workers that are alive
Workers == {i \in DOMAIN worker : worker[i] = "alive"}

\* lines 165-177: one call_mcp_tool coroutine per candidate is handed to
\* gather, all at once; nothing limits how many run at a time
Quality_begin ==
    /\ qstage = "idle"
    /\ \E l \in QCandLists :
         /\ qrepo' = l
         /\ qpc' = [i \in DOMAIN l |-> "new"]
         /\ worker' = [i \in DOMAIN l |-> "none"]
         /\ closes' = [i \in DOMAIN l |-> 0]
         /\ close_failed' = [i \in DOMAIN l |-> FALSE]
         /\ primary' = [i \in DOMAIN l |-> NoFields]
         /\ qresult' = [i \in DOMAIN l |-> None]
    /\ qstage' = "running"
    /\ UNCHANGED qlist
    /\ UNCHANGED notQualVars

\* the task reaches the finally block with the fields as they are in r
ToFinally(i, r) ==
    /\ qrepo' = [qrepo EXCEPT ![i] = r]
    /\ primary' = [primary EXCEPT ![i] = Fields(r)]
    /\ qpc' = [qpc EXCEPT ![i] = "closing"]

\* lines 103-117: a task starts.  Without a clone_url it returns its repo and
\* starts no client; otherwise it makes a client and awaits client.init(),
\* which starts the worker process (line 67) or fails to.
Task_start(i) ==
    /\ qstage = "running"
    /\ i \in DOMAIN qpc
    /\ qpc[i] = "new"
    /\ IF ~qrepo[i].clone_url
       THEN /\ qpc' = [qpc EXCEPT ![i] = "returned"]
            /\ qresult' = [qresult EXCEPT ![i] = i]
            /\ UNCHANGED <<qrepo, worker, primary>>
       ELSE \E spawned \in BOOLEAN :
              IF spawned
              THEN /\ worker' = [worker EXCEPT ![i] = "alive"]
                   /\ qpc' = [qpc EXCEPT ![i] = "handshake"]
                   /\ UNCHANGED <<qrepo, primary, qresult>>
              ELSE /\ ToFinally(i, call_mcp_tool(qrepo[i], "fail"))
                   /\ UNCHANGED <<worker, qresult>>
    /\ UNCHANGED <<qstage, closes, close_failed, qlist>>
    /\ UNCHANGED notQualVars

\* lines 71-77, 117: the session is made and the handshake answered, or a
\* step of it raises and the except branch of line 144 is taken
Init_done(i) ==
    /\ qstage = "running"
    /\ i \in DOMAIN qpc
    /\ qpc[i] = "handshake"
    /\ \E ok \in BOOLEAN :
         IF ok
         THEN /\ qpc' = [qpc EXCEPT ![i] = "calling"]
              /\ UNCHANGED <<qrepo, primary>>
         ELSE ToFinally(i, call_mcp_tool(qrepo[i], "fail"))
    /\ UNCHANGED <<qstage, worker, closes, close_failed, qresult, qlist>>
    /\ UNCHANGED notQualVars

\* lines 120-146: the tool call ends, in one of the ways of ToolOutcomes, and
\* the fields are written
Tool_done(i) ==
    /\ qstage = "running"
    /\ i \in DOMAIN qpc
    /\ qpc[i] = "calling"
    /\ \E outcome \in ToolOutcomes : ToFinally(i, call_mcp_tool(qrepo[i], outcome))
    /\ UNCHANGED <<qstage, worker, closes, close_failed, qresult, qlist>>
    /\ UNCHANGED notQualVars

\* lines 148-152: the finally block awaits client.close(), which closes the
\* exit stack and with it the session and the worker; then the repo is
\* returned, unless an exception leaves close().  A teardown that raises may
\* have stopped the worker or not.
Finally_close(i) ==
    /\ qstage = "running"
    /\ i \in DOMAIN qpc
    /\ qpc[i] = "closing"
    /\ closes' = [closes EXCEPT ![i] = @ + 1]
    /\ \E teardown \in Teardowns, stopped \in BOOLEAN :
         /\ teardown = "ok" => stopped
         /\ worker' = [worker EXCEPT ![i] = IF @ = "alive" /\ stopped THEN "gone" ELSE @]
         /\ close_failed' = [close_failed EXCEPT ![i] = teardown = "error"]
         /\ IF close(teardown)
            THEN /\ qpc' = [qpc EXCEPT ![i] = "raised"]
                 /\ qresult' = [qresult EXCEPT ![i] = AnException]
            ELSE /\ qpc' = [qpc EXCEPT ![i] = "returned"]
                 /\ qresult' = [qresult EXCEPT ![i] = i]
    /\ UNCHANGED <<qstage, qrepo, primary, qlist>>
    /\ UNCHANGED notQualVars

\* lines 177-184: every task has ended; the entries of the gathered list
\* that are no exceptions are returned, in the order of the list
Quality_end ==
    /\ qstage = "running"
    /\ \A i \in DOMAIN qpc : qpc[i] \in {"returned", "raised"}
    /\ qlist' = FilterSeq(gather([i \in DOMAIN qpc |-> i], <<>>, qresult), DOMAIN qpc)
    /\ qstage' = "done"
    /\ UNCHANGED <<qrepo, qpc, worker, closes, close_failed, primary, qresult>>
    /\ UNCHANGED notQualVars

Next_Quality ==
    \/ Quality_begin
    \/ \E i \in 1..MaxQCands : Task_start(i)
    \/ \E i \in 1..MaxQCands : Init_done(i)
    \/ \E i \in 1..MaxQCands : Tool_done(i)
    \/ \E i \in 1..MaxQCands : Finally_close(i)
    \/ Quality_end


(***************************************************************************)
(* The specifications.                                                     *)
(***************************************************************************)
\* the graph has not been run
GraphIdle ==
    /\ run_state = "finished"
    /\ step_tasks = {}
    /\ node_status = [n \in Nodes |-> "idle"]
    /\ exec_count = [n \in Nodes |-> 0]
    /\ done_count = [n \in Nodes |-> 0]
    /\ pending_writes = {}
    /\ early_start = {}
    /\ StateDefaults

\* a filter stage called on any state
Init_Stage == StageStart /\ FetchStart({}, FALSE) /\ DepsStart /\ SandboxStart
              /\ QualStart
SpecStage == Init_Stage /\ [][Next_Stage]_vars

\* one run of the compiled graph
Init_Graph == GraphStart /\ FetchStart({}, FALSE) /\ DepsStart /\ SandboxStart
              /\ QualStart
SpecGraph == Init_Graph /\ [][Next_Graph]_vars

\* concurrent tasks calling _gh_raw through its cache
Init_Fetch == GraphIdle /\ FetchStart(Callers, FALSE) /\ DepsStart /\ SandboxStart
              /\ QualStart
SpecFetch == Init_Fetch /\ [][Next_Fetch]_vars

\* one task calling _gh_raw, the waits of each call recorded
Init_Backoff == GraphIdle /\ FetchStart({1}, TRUE) /\ DepsStart /\ SandboxStart
              /\ QualStart
SpecBackoff == Init_Backoff /\ [][Next_Fetch]_vars

\* the tasks of one call of dependency_analysis_async
Init_Deps == GraphIdle /\ FetchStart({}, FALSE) /\ DepsStart /\ SandboxStart
              /\ QualStart
SpecDeps == Init_Deps /\ [][Next_Deps]_vars

\* one call of analyze_repo_quality
Init_Sandbox == GraphIdle /\ FetchStart({}, FALSE) /\ DepsStart /\ SandboxStart
              /\ QualStart
SpecSandbox == Init_Sandbox /\ [][Next_Sandbox]_vars

\* the same call, where every step that can be taken is taken in the end: a
\* process that exits is waited for, the worker answers, the event loop runs
\* the caller
SpecSandboxLive == SpecSandbox /\ WF_vars(Next_Sandbox)

\* the tasks of one call of code_quality_analysis_async
Init_Quality == GraphIdle /\ FetchStart({}, FALSE) /\ DepsStart /\ SandboxStart
                /\ QualStart
SpecQuality == Init_Quality /\ [][Next_Quality]_vars

(***************************************************************************)
(* The claims about the stage graph (SpecGraph).                           *)
(***************************************************************************)

\* C1: a join stage never runs before all of its declared predecessors have
\* completed in the run: while code_quality_analysis or merge_analysis is
\* running, each of its predecessors has completed at least once.
C1_JoinAfterAllPredecessors ==
    \A n \in JoinNodes :
        node_status[n] = "running" => \A p \in Preds(n) : done_count[p] >= 1

\* The part of C1 about code_quality_analysis alone: its two predecessors run
\* in the same superstep, so both have completed when it starts.
CodeQualityJoinAfterBoth ==
    node_status["code_quality_analysis"] = "running"
        => \A p \in Preds("code_quality_analysis") : done_count[p] >= 1

\* C2: in one run every stage executes exactly once, and never before a stage
\* it depends on: no stage is ever started twice, none is started before a
\* predecessor has completed, and when the run has finished each was started once.
C2_EachStageExactlyOnce ==
    /\ \A n \in Nodes : exec_count[n] <= 1
    /\ early_start = {}
    /\ run_state = "finished" => \A n \in Nodes : exec_count[n] = 1

\* C10: a candidate that dependency_analysis dropped (in filtered_candidates,
\* not in hardware_filtered) is not in quality_candidates, once both stages'
\* outputs are in the state.
C10_DroppedNeverReappears ==
    (/\ done_count["dependency_analysis"] >= 1
     /\ done_count["code_quality_analysis"] >= 1
     /\ "dependency_analysis" \notin step_tasks
     /\ "code_quality_analysis" \notin step_tasks)
    => \A i \in Range(filtered_candidates) \ Range(hardware_filtered) :
           i \notin Range(quality_candidates)

\* whether the candidates of a list have pairwise distinct full_name
DistinctNames(l) ==
    \A i, j \in DOMAIN l : i # j => repo[l[i]].full_name # repo[l[j]].full_name

\* C12: when the candidates of reranked_candidates have pairwise distinct
\* full_name, so have the candidates of every list a stage of the run wrote:
\* filtered_candidates, hardware_filtered, activity_candidates, quality_candidates.
C12_NoStageDuplicates ==
    DistinctNames(reranked_candidates)
    => /\ DistinctNames(filtered_candidates)
       /\ DistinctNames(hardware_filtered)
       /\ DistinctNames(activity_candidates)
       /\ DistinctNames(quality_candidates)

\* the case of C12: a finished run whose two reranked candidates have
\* different names and went through all four stages
C12_Witness ==
    /\ run_state = "finished"
    /\ Len(reranked_candidates) = 2
    /\ DistinctNames(reranked_candidates)
    /\ Len(filtered_candidates) = 2
    /\ Len(activity_candidates) = 2
    /\ Len(quality_candidates) = 2
    /\ hardware_spec # ""
    /\ hardware_filtered # <<>>

\* C13: a per-candidate task of dependency_analysis that fails with an error
\* the fetcher does not retry does not abort the batch: the stage never leaves
\* with that exception, so the run never fails in dependency_analysis.
C13_TaskFailureDoesNotAbortBatch ==
    ~(node_status["dependency_analysis"] = "raised" /\ run_state = "failed")

\* C14: a candidate whose tool invocation failed at any step has
\* code_quality_score 0 and a non-empty error text in details, and is in
\* quality_candidates once the stage's output is in the state.
C14_ToolFailureIsDegradedResult ==
    \A i \in RepoIds :
        tool_outcome[i] = "failed"
        => /\ repo[i].code_quality_score = 0
           /\ repo[i].details # ""
           /\ run_state = "finished" => i \in Range(quality_candidates)

\* whether the elements of out follow each other as they do in inp
InOrder(out, inp) ==
    \A a, b \in DOMAIN out :
        a < b => \E x, y \in DOMAIN inp : x < y /\ inp[x] = out[a] /\ inp[y] = out[b]

\* C19: for any completion order of the per-candidate tasks, hardware_filtered
\* and quality_candidates list their candidates in the relative order of
\* filtered_candidates, and filtered_candidates in that of reranked_candidates.
C19_InputOrderPreserved ==
    /\ InOrder(hardware_filtered, filtered_candidates)
    /\ InOrder(quality_candidates, filtered_candidates)
    /\ InOrder(filtered_candidates, reranked_candidates)

\* the case of C19: with a hardware hint, two candidates were kept by
\* dependency_analysis and analysed by code_quality_analysis
C19_Witness ==
    /\ run_state = "finished"
    /\ hardware_spec # ""
    /\ Len(reranked_candidates) = 2
    /\ \A i \in Range(reranked_candidates) : HasSlash(repo[i].full_name)
    /\ Len(hardware_filtered) = 2
    /\ Len(quality_candidates) = 2

\* C20: the stages downstream of threshold_filtering leave its output as it
\* was: no dict of filtered_candidates has been changed since
\* threshold_filtering returned.
C20_FilteredUnchangedDownstream ==
    \A i \in Range(filtered_candidates) : i \notin modified


\* whether a candidate is below both cutoffs of threshold_filtering
BelowBoth(i) ==
    repo[i].stars < min_stars /\ repo[i].cross_encoder_score < cross_encoder_threshold

\* the output of threshold_filtering is in the state
FilterApplied ==
    done_count["threshold_filtering"] >= 1 /\ "threshold_filtering" \notin step_tasks

C24_NonePassesCase ==
    /\ FilterApplied
    /\ Len(reranked_candidates) = 2
    /\ \A i \in Range(reranked_candidates) : BelowBoth(i)
    /\ filtered_candidates = reranked_candidates

\* C25: a failed remote request of one candidate does not escalate in
\* repository_activity_analysis: the stage never leaves with an exception,
\* and once its output is in the state every candidate of
\* filtered_candidates is in activity_candidates with an activity record.
C25_ActivityFailureDoesNotEscalate ==
    /\ node_status["repository_activity_analysis"] # "raised"
    /\ (/\ done_count["repository_activity_analysis"] >= 1
        /\ "repository_activity_analysis" \notin step_tasks)
       => \A i \in Range(filtered_candidates) :
              /\ i \in Range(activity_candidates)
              /\ repo[i].activity_score # UNSET


(***************************************************************************)
(* The claims about a filter stage called on any state (SpecStage).        *)
(***************************************************************************)

\* C11: the output of the latest call of a filter stage holds only candidates
\* of that call's input and is no longer than it.
C11_FilterOutputWithinInput ==
    call_log.stage # "none"
    => /\ Range(call_log.output) \subseteq Range(call_log.input)
       /\ Len(call_log.output) <= Len(call_log.input)

\* The part of C11 about dependency_analysis alone.
DependencyOutputWithinInput ==
    call_log.stage = "dependency_analysis"
    => /\ Range(call_log.output) \subseteq Range(call_log.input)
       /\ Len(call_log.output) <= Len(call_log.input)


(***************************************************************************)
(* The claims about the tasks of dependency_analysis (SpecDeps).           *)
(***************************************************************************)

C16_JudgmentCallsThirtySecondsApart ==
    \A k \in DOMAIN call_gaps : call_gaps[k] >= 30

\* the case of C16: two candidates with dependencies were both judged, the
\* second one having waited for the limiter
C16_Witness ==
    /\ Len(call_gaps) >= 1
    /\ Cardinality({i \in DOMAIN njudge : njudge[i] = 1}) = 2

\* C17: with a hardware hint, for a candidate whose full_name has no "/" no
\* manifest fetch and no judgment call is made, and it is in hardware_filtered
\* when the stage has returned.
C17_UnsplittableNamePassesThrough ==
    dhw => \A i \in DOMAIN dfull :
              dfull[i] = "noslash"
              => /\ nfetch[i] = 0
                 /\ njudge[i] = 0
                 /\ dstage = "done" => i \in Range(dkept)

\* the case of C17: the stage has returned, it kept the candidate without "/"
\* and dropped another one after a judgment
C17_Witness ==
    /\ dhw
    /\ dstage = "done"
    /\ \E i \in DOMAIN dfull : dfull[i] = "noslash" /\ i \in Range(dkept)
    /\ \E j \in DOMAIN dpc : dpc[j] = "dropped" /\ njudge[j] = 1


\* the tasks that hold a permit of the fetch semaphore
Holders == {i \in DOMAIN permit : permit[i]}

\* C22: no task holds a fetch permit while it waits for the judgment rate
\* limiter; the permits left are 5 minus the tasks inside the collection,
\* however many tasks wait for the limiter, and a task waits for a permit
\* only while 5 tasks are inside the collection.
C22_GatesShareNoPermit ==
    /\ \A i \in DOMAIN dpc : dpc[i] = "throttled" => ~permit[i]
    /\ Holders = Inside
    /\ sem_value = SemPermits - Cardinality(Inside)
    /\ sem_waiters # <<>> => Cardinality(Inside) = SemPermits

\* the case of C22: six candidates; one has been judged and one waits for the
\* limiter, which has no capacity, while the candidate that had to wait for a
\* permit is inside the collection with three others and one permit is free
C22_Witness ==
    /\ Len(dfull) = 6
    /\ \E i \in DOMAIN dpc : dpc[i] = "throttled"
    /\ ~has_capacity(lim_level)
    /\ dpc[6] = "collecting" /\ permit[6]
    /\ Cardinality(Inside) = 4
    /\ sem_value = 1

\* C26: with a hardware hint, no judgment call is made for a candidate whose
\* manifests yielded no dependency, and it is in hardware_filtered when the
\* stage has returned; a judgment call is made, once, only for a candidate
\* with a dependency, after both fetches have returned, and such a candidate
\* is in hardware_filtered exactly when the verdict is "YES".
C26_NoDepsKeptWithoutJudgment ==
    dhw => \A i \in DOMAIN dfull :
              /\ ~has_deps[i] => njudge[i] = 0 /\ verdict[i] = "-"
              /\ njudge[i] <= 1
              /\ njudge[i] = 1 => has_deps[i] /\ nfetch[i] = 2 /\ inflight[i] = 0
              /\ (dstage = "done" /\ ~has_deps[i]) => i \in Range(dkept)
              /\ (dstage = "done" /\ has_deps[i])
                    => (i \in Range(dkept) <=> verdict[i] = "YES")

\* the case of C26: the stage has returned; a candidate whose two fetches
\* yielded nothing was kept without a judgment, one with dependencies was
\* kept on "YES", one was dropped on "YES,"
C26_Witness ==
    /\ dhw
    /\ dstage = "done"
    /\ \E i \in DOMAIN dfull :
          nfetch[i] = 2 /\ ~has_deps[i] /\ njudge[i] = 0 /\ i \in Range(dkept)
    /\ \E j \in DOMAIN dfull :
          has_deps[j] /\ verdict[j] = "YES" /\ j \in Range(dkept)
    /\ \E k \in DOMAIN dfull :
          has_deps[k] /\ verdict[k] = "YES," /\ k \notin Range(dkept)


(***************************************************************************)
(* The claims about the tasks of code_quality_analysis (SpecQuality).      *)
(***************************************************************************)

\* the ceiling the worker count is held against: one below the largest batch
WorkerCeiling == MaxQCands - 1

\* C21: the number of tool workers alive at the same time never exceeds a
\* ceiling that does not grow with the number of candidates: a batch larger
\* than the ceiling never has more workers alive than the ceiling.
C21_WorkersBelowCeiling ==
    Cardinality(Workers) <= WorkerCeiling

\* C23: a call_mcp_tool that made a client closes it exactly once, after the
\* try block has ended and before it returns, on every path; it then returns
\* its repo, also when the teardown failed, with the fields as the try block
\* left them; a call that made no client closes none; and every candidate is
\* in the list the stage returns.
C23_ClientClosedOnceAndQuietly ==
    \A i \in DOMAIN qpc :
        /\ closes[i] <= 1
        /\ qpc[i] \in {"new", "handshake", "calling", "closing"} => closes[i] = 0
        /\ qpc[i] # "raised"
        /\ (qpc[i] = "returned" /\ qrepo[i].clone_url)
              => /\ closes[i] = 1
                 /\ ~close_failed[i] => worker[i] # "alive"
                 /\ qresult[i] = i
                 /\ Fields(qrepo[i]) = primary[i]
        /\ ~qrepo[i].clone_url => closes[i] = 0 /\ worker[i] = "none"
        /\ qstage = "done" => i \in Range(qlist)

\* the case of C23: the stage has returned; the teardown of one candidate
\* failed after its tool call had delivered a score, that of another went
\* well after the tool call had raised
C23_Witness ==
    /\ qstage = "done"
    /\ \E i \in DOMAIN qpc :
          /\ close_failed[i] /\ closes[i] = 1
          /\ qrepo[i].code_quality_score = 95
          /\ i \in Range(qlist)
    /\ \E j \in DOMAIN qpc :
          /\ ~close_failed[j] /\ closes[j] = 1 /\ worker[j] = "gone"
          /\ qrepo[j].code_quality_score = 0


(***************************************************************************)
(* The claims about the fetch cache (SpecFetch).                           *)
(***************************************************************************)

\* C4: once a fetch for a key has returned content or a 404 absence, no later
\* fetch for that key issues a network request, however many other keys were
\* fetched in between; and two fetches for one key that overlap in time do not
\* both run a request sequence.
C4_NoSecondRequestForKey ==
    /\ \A c \in Callers : pre_settled[c] => nreq[c] = 0
    /\ \A c, d \in Callers :
          (c # d /\ fpc[c] \in {"request", "sleep"} /\ fpc[d] \in {"request", "sleep"})
            => fkey[c] # fkey[d]

\* C5: a fetch that gives up after its last attempt leaves no cache entry for
\* its key, so a fetch of that key after the give-up is not answered from the
\* cache.
C5_GiveUpLeavesNoEntry ==
    /\ \A c \in Callers :
          (fpc[c] = "done" /\ fhow[c] = "gaveup") => fkey[c] \notin CacheKeys
    /\ \A c \in Callers :
          (fpc[c] = "done" /\ fhow[c] = "hit") => ~pre_gaveup[c]

\* C6: once a fetch for a key has returned absent because of a 404, every later
\* fetch for that key returns absent, never content, whatever number of other
\* keys (more than the cache holds included) is fetched in between.
C6_AbsentNeverBecomesContent ==
    \A c \in Callers :
        (fpc[c] = "done" /\ pre_absent[c]) => fresult[c] # "content"

(***************************************************************************)
(* The claims about the retry loop of _gh_raw (SpecBackoff).               *)
(***************************************************************************)

\* C7, as stated: within one fetch call the waits slept after consecutive
\* rate-limited responses are non-decreasing, and a wait after a response that
\* carries X-Ratelimit-Reset is at most (reset time - current time).
C7_WaitsNonDecreasingAndCapped ==
    \A c \in Callers :
      LET w == fwaits[c]
      IN  /\ \A i \in DOMAIN w :
                (w[i].kind = "ratelimit" /\ w[i].has_reset)
                  => w[i].delay <= w[i].reset_in
          /\ \A i \in DOMAIN w :
                (i + 1 \in DOMAIN w /\ w[i].kind = "ratelimit"
                   /\ w[i + 1].kind = "ratelimit")
                  => w[i].delay <= w[i + 1].delay

\* C7, amended: the wait after the rate-limited response of attempt k (the
\* k+1st wait of the call) is the larger of (reset time - current time) and
\* 2 * 2^k when the response carries X-Ratelimit-Reset, and 2 * 2^k when it does
\* not; so every such wait is at least 2, 4, 8 and at least (reset time -
\* current time), and consecutive waits after responses without the header are
\* non-decreasing.
C7_WaitsAtLeastResetAndBackoff ==
    \A c \in Callers :
      LET w == fwaits[c]
          floor(i) == CASE i = 1 -> 2 [] i = 2 -> 4 [] OTHER -> 8
      IN  /\ \A i \in DOMAIN w :
                w[i].kind = "ratelimit"
                  => /\ w[i].delay >= floor(i)
                     /\ w[i].has_reset =>
                           /\ w[i].delay >= w[i].reset_in
                           /\ w[i].delay \in {w[i].reset_in, floor(i)}
                     /\ ~w[i].has_reset => w[i].delay = floor(i)
          /\ \A i \in DOMAIN w :
                (i + 1 \in DOMAIN w /\ w[i].kind = "ratelimit"
                   /\ w[i + 1].kind = "ratelimit"
                   /\ ~w[i].has_reset /\ ~w[i + 1].has_reset)
                  => w[i].delay <= w[i + 1].delay

\* the case of C7: three rate-limited responses in one call, the first with a
\* reset far ahead, the second with a reset already past, the third without the
\* header: the waits are 20, 4, 8
C7_Witness ==
    \E c \in Callers :
        /\ Len(fwaits[c]) = 3
        /\ \A i \in 1..3 : fwaits[c][i].kind = "ratelimit"
        /\ fwaits[c][1].has_reset /\ fwaits[c][1].delay = 20
        /\ fwaits[c][2].has_reset /\ fwaits[c][2].delay = 4
        /\ ~fwaits[c][3].has_reset /\ fwaits[c][3].delay = 8

\* C8: a fetch call issues at most 3 network requests; when all 3 attempts end
\* in a rate-limit response, an unexpected status or a network error, the call
\* returns absent without raising, having slept after each of the three
\* attempts 2, 4 and 8 seconds, or longer where a reset header demands it.
C8_AtMostThreeAttempts ==
    \A c \in Callers :
      LET w == fwaits[c]
          floor(i) == CASE i = 1 -> 2 [] i = 2 -> 4 [] OTHER -> 8
      IN  /\ nreq[c] <= 3
          /\ Len(w) <= 3
          /\ Len(w) = 3 => fpc[c] \in {"sleep", "done"}
          /\ (fpc[c] = "done" /\ Len(w) = 3)
                => fresult[c] = "none" /\ fhow[c] = "gaveup" /\ nreq[c] = 3
          /\ (fpc[c] = "done" /\ fhow[c] = "gaveup") => Len(w) = 3
          /\ \A i \in DOMAIN w :
                /\ w[i].delay >= floor(i)
                /\ w[i].delay > floor(i)
                      => (w[i].kind = "ratelimit" /\ w[i].has_reset
                            /\ w[i].delay = w[i].reset_in)

\* the case of C8: a call that has given up after a rate-limit response, an
\* unexpected status and a network error
C8_Witness ==
    \E c \in Callers :
        /\ fpc[c] = "done" /\ fhow[c] = "gaveup" /\ nreq[c] = 3
        /\ Len(fwaits[c]) = 3
        /\ fwaits[c][1].kind = "ratelimit"
        /\ fwaits[c][2].kind = "unexpected"
        /\ fwaits[c][3].kind = "neterror"


(***************************************************************************)
(* The claims about analyze_repo_quality (SpecSandbox).                    *)
(***************************************************************************)

\* C3: after any call of analyze_repo_quality has returned, the temporary
\* directory the call created no longer exists.
C3_WorkspaceGoneAfterReturn ==
    spc = "returned" => ~tmp_exists

\* C9: for e diagnostics and f >= 1 Python files the reported score s is the
\* piecewise formula of r = e/f truncated to an integer.  With the formula's
\* value written as the fraction n/d, truncation means s*d <= n < (s+1)*d.
\* In particular r = 0, 2, 5, 10, 20, 50 give 100, 95, 70, 40, 20, 10, and the
\* score is never below 10.
C9_ScoreIsTruncatedFormula ==
    (spc = "returned" /\ analyzed) =>
      LET e == error_count
          f == total_files
          s == result_data.code_quality_score
          \* the formula's value, times 2f
          n == IF e <= 2 * f THEN 95 * 2 * f + 5 * (2 * f - e)
               ELSE IF e <= 5 * f THEN 70 * 2 * f + 13 * (5 * f - e)
               ELSE IF e <= 10 * f THEN 40 * 2 * f + 6 * (10 * f - e)
               ELSE Max(10 * 2 * f, 40 * 2 * f - 4 * (e - 10 * f))
          d == 2 * f
      IN  /\ f >= 1
          /\ s * d <= n /\ n < (s + 1) * d
          /\ s >= 10 /\ s <= 100
          /\ e = 0 => s = 100
          /\ e = 2 * f => s = 95
          /\ e = 5 * f => s = 70
          /\ e = 10 * f => s = 40
          /\ e = 20 * f => s = 20
          /\ e = 50 * f => s = 10
          /\ result_data.code_quality_issues = e
          /\ result_data.python_files = f

\* the case of C9: a returned analysis of one file with 50 diagnostics (r = 50)
C9_Witness ==
    /\ spc = "returned" /\ analyzed
    /\ total_files = 1 /\ error_count = 50
    /\ result_data.code_quality_score = 10

\* a second case of C9: a ratio that is no integer, 9 diagnostics in 4 files
\* (r = 2.25, 70 + 2.75 * 6.5 = 87.875)
C9_FractionCase ==
    /\ spc = "returned" /\ analyzed
    /\ total_files = 4 /\ error_count = 9
    /\ result_data.code_quality_score = 87

\* C18: a clone or an analyzer run that never completes is cut off by a
\* timeout: once call_mcp_tool awaits the tool, analyze_repo_quality
\* eventually returns and call_mcp_tool eventually returns for the candidate,
\* so that code_quality_analysis, which gathers all calls, can complete.
C18_HungChildIsTimedOut ==
    (cpc = "awaiting") ~> (spc = "returned" /\ cpc = "returned")

\* Where no child process hangs, the call does return.
ReturnsUnlessHung ==
    (cpc = "awaiting") ~> (hung \/ (spc = "returned" /\ cpc = "returned"))

=============================================================================
